---- MODULE Spec2Model ----
(***************************************************************************)
(* Model of humblebundle_downloader/download_library.py: the DownloadLibrary *)
(* sync run (start), the per-order work units (_process_order_id,          *)
(* _process_product), the trove path (_process_trove_product), the         *)
(* download step (_process_download), and the collaborators it calls       *)
(* (file_ops, data.cache, the pool), which are not in the source tree and  *)
(* are modelled from the specification.                                    *)
(***************************************************************************)
EXTENDS Integers, Sequences, FiniteSets, TLC

\* ---------------------------------------------------------------- bounds
MaxRuns == 2        \* program invocations in one behaviour
MaxToken == 2       \* remote revisions a file can go through
MaxPool == 3        \* multiprocessing.cpu_count() ranges over 1..MaxPool
MaxChanges == 1     \* remote catalogue changes in one behaviour

\* ------------------------------------------------------------- catalogue
\* purchase keys (orders); in trove mode the same containers are the products
PurchaseKeys == <<"o1", "o2">>
Orders == {PurchaseKeys[i] : i \in 1..Len(PurchaseKeys)}
\* the files each order (or trove product) enumerates, in enumeration order
OrderFiles == [o \in Orders |-> IF o = "o1" THEN <<"f1", "f2">> ELSE <<"f3">>]
Files == UNION {{OrderFiles[o][i] : i \in 1..Len(OrderFiles[o])} : o \in Orders}
\* two purchases of one bundle: both orders resolve to the same bundle and
\* product folder and list the same file name, so "f2" is one destination
\* path that two work units reach
SameBundleFiles == [o \in Orders |-> IF o = "o1" THEN <<"f1", "f2">> ELSE <<"f2">>]

\* the name of each file's url, cut at the dots, and the platform of the
\* download entry that lists it
UrlFilename == [f \in Files |->
                  IF f = "f1" THEN <<"game", "ZIP">>
                  ELSE IF f = "f2" THEN <<"book", "pdf">>
                  ELSE <<"README">>]
Platform == [f \in Files |->
               IF f = "f1" THEN "Windows" ELSE IF f = "f2" THEN "ebook" ELSE "linux"]

\* str.lower() on the strings that occur
Lower(s) ==
    CASE s = "ZIP" -> "zip"
      [] s = "Zip" -> "zip"
      [] s = "PDF" -> "pdf"
      [] s = "Windows" -> "windows"
      [] s = "Linux" -> "linux"
      [] s = "ALL" -> "all"
      [] s = "README" -> "readme"
      [] OTHER -> s

\* the constructor called without filters
NoFilters == [ext_include |-> {}, ext_exclude |-> {}, platform_include |-> {}]

Tokens == 1..MaxToken
\* the date a remote-modified token falls on: strptime(...).strftime('%Y-%m-%d')
\* drops the time of day, so two tokens of one day give one date
DateOf(t) == (t + 1) \div 2
Dates == {DateOf(t) : t \in Tokens}

\* a file on disk: absent, partial (being written / truncated) or complete
Absent == [state |-> "absent", ver |-> 0]
Partial(t) == [state |-> "partial", ver |-> t]
Complete(t) == [state |-> "complete", ver |-> t]

\* CsvCacheData: a cache record; the record get_cache_item returns for an
\* unknown key is empty
EmptyRecord(f) == [key |-> f, present |-> FALSE, remote |-> 0, md5 |-> "none", local |-> 0]
KillEvent == [key |-> "kill", present |-> FALSE, remote |-> 0, md5 |-> "none", local |-> 0]
\* the md5 values a remote descriptor can carry ("none": the field is missing)
Hashes == {"none", "h1", "h2"}

IdleUnit == [pc |-> "queued", idx |-> 0, rec |-> KillEvent, hint |-> 0]

VARIABLES
    run,            \* number of the current invocation
    trove,          \* self.trove
    update,         \* self.update
    poolSize,       \* multiprocessing.cpu_count()
    keys,           \* self.purchase_keys
    config,         \* the constructor's ext_include, ext_exclude, platform_include
    remote,         \* the remote catalogue: per file its token and md5
    changes,        \* remote changes so far
    subproducts,    \* the files each order record (or trove product) lists
    fs,             \* file at each file's canonical destination path
    aside,          \* renamed-aside files: per file, per date suffix
    store,          \* the persisted cache (csv file)
    cache_data_csv, \* self.cache_data_csv, loaded once in __init__
    queue,          \* the manager's JoinableQueue
    pc,             \* where the coordinator (start) is
    writer,         \* the file_ops.update_csv_cache task
    unit,           \* per order: the _process_order_id job
    st,             \* per file: what this run has done with it so far
    applied,        \* files whose event the writer applied in this run
    startFs,        \* the canonical paths as they were when the run began
    prev            \* summary of the previous invocation

cfg == <<run, trove, update, poolSize, keys, config>>
world == <<remote, changes, subproducts>>
disk == <<fs, aside>>
ghost == <<st, applied, startFs, prev>>
vars == <<run, trove, update, poolSize, keys, config, remote, changes,
          subproducts, fs, aside, store,
          cache_data_csv, queue, pc, writer, unit,
          st, applied, startFs, prev>>

\* st[f]: "none" (not reached), "filtered" (left out by the platform or the
\* extension filter), "skipped" (left out without a fetch),
\* "raised" (the fetch or signing request raised), "non200", "unchanged"
\* (fetched, token as cached), "unauthorized" (trove signing refused),
\* "entered" (inside _process_download), and how _process_download ended:
\* "failed_open" (it raised before the destination was opened), "failed" (it
\* raised mid-write), "interrupt", "ok"
Fetched == {f \in Files : st[f] \notin {"none", "filtered", "skipped"}}
Downloads == {f \in Files : st[f] \in {"entered", "failed_open", "failed", "interrupt", "ok"}}

NoPrev == [end |-> "none", update |-> FALSE, applied |-> {}, changed |-> FALSE]

\* what an earlier, complete sync of the first catalogue left behind
SyncedRecord(f) == [key |-> f, present |-> TRUE, remote |-> 1, md5 |-> "h1", local |-> 0]

Init ==
    /\ run = 1
    /\ trove \in BOOLEAN
    /\ update \in BOOLEAN
    /\ poolSize \in 1..MaxPool
    /\ keys = <<>>
    /\ config = NoFilters
    /\ remote = [f \in Files |-> [tok |-> 1, md5 |-> "h1"]]
    /\ changes = 0
    /\ subproducts = OrderFiles
    /\ \/ \* a fresh library
          /\ fs = [f \in Files |-> Absent]
          /\ store = [f \in Files |-> EmptyRecord(f)]
       \/ \* a library that was synced before
          /\ fs = [f \in Files |-> Complete(1)]
          /\ store = [f \in Files |-> SyncedRecord(f)]
    /\ aside = [f \in Files |-> [d \in Dates |-> Absent]]
    /\ cache_data_csv = store
    /\ queue = <<>>
    /\ pc = "Idle"
    /\ writer = "none"
    /\ unit = [o \in Orders |-> IdleUnit]
    /\ st = [f \in Files |-> "none"]
    /\ applied = {}
    /\ startFs = fs
    /\ prev = NoPrev

\* ------------------------------------------------------------ coordinator
Terminal == {"Done", "Aborted", "Fatal", "Exited", "Interrupted", "Crashed"}
KeySet == {keys[i] : i \in 1..Len(keys)}
KeyIndex(o) == CHOOSE i \in 1..Len(PurchaseKeys) : PurchaseKeys[i] = o
UnitRunning(u) == u.pc \in {"order", "file", "rename", "open", "writing"}
UnitReady(u) == u.pc \in {"done", "raised"}
\* worker slots of the pool in use: the cache-writer task and the running jobs
Busy == (IF writer = "running" THEN 1 ELSE 0)
        + Cardinality({o \in Orders : UnitRunning(unit[o])})

\* start, line 103: the purchase keys are given, or derived from the library
\* page (_get_purchase_keys: [] on a network failure, InvalidCookieException
\* when the page carries no user data)
start_keys ==
    /\ pc = "Idle"
    /\ \/ keys' = PurchaseKeys /\ pc' = "Keys"
       \/ keys' = <<>> /\ pc' = "Keys"
       \/ keys' = <<>> /\ pc' = "Fatal"
    /\ UNCHANGED <<run, trove, update, poolSize, config, world, disk, store,
                   cache_data_csv, queue, writer, unit, ghost>>

\* start, lines 111-123: the writer task is submitted first, then one job
\* per purchase key
start_dispatch ==
    /\ pc = "Keys" /\ ~trove
    /\ writer' = "submitted"
    /\ pc' = "Waiting"
    /\ UNCHANGED <<cfg, world, disk, store, cache_data_csv, queue, unit, ghost>>

\* the pool gives the writer task, submitted first, the first free slot
writer_start ==
    /\ writer = "submitted" /\ pc \notin Terminal
    /\ writer' = "running"
    /\ UNCHANGED <<cfg, world, disk, store, cache_data_csv, queue, pc, unit, ghost>>

\* the pool starts a job when a slot is free; tasks leave the pool's task
\* queue in submission order
unit_start(o) ==
    /\ pc = "Waiting" /\ ~trove
    /\ o \in KeySet
    /\ unit[o].pc = "queued"
    /\ writer # "submitted"
    /\ \A p \in KeySet : KeyIndex(p) < KeyIndex(o) => unit[p].pc # "queued"
    /\ Busy < poolSize
    /\ unit' = [unit EXCEPT ![o].pc = "order"]
    /\ UNCHANGED <<cfg, world, disk, store, cache_data_csv, queue, pc, writer, ghost>>

\* ------------------------------------------------------------- work units
CurFile(o) == subproducts[o][unit[o].idx]

\* the unit moves on to its next file, or returns after its last one
NextFile(u, o) ==
    IF u.idx < Len(subproducts[o])
    THEN [pc |-> "file", idx |-> u.idx + 1, rec |-> KillEvent, hint |-> 0]
    ELSE [pc |-> "done", idx |-> u.idx, rec |-> KillEvent, hint |-> 0]

\* _process_order_id, lines 254-274: fetch the order record; a fetch that
\* raises is logged and the unit returns; a response that is not the
\* expected json raises out of the job; otherwise the products are walked
process_order_id(o) ==
    /\ unit[o].pc = "order"
    /\ \/ unit' = [unit EXCEPT ![o].pc = "done"]
       \/ unit' = [unit EXCEPT ![o].pc = "raised"]
       \/ unit' = [unit EXCEPT ![o] = NextFile(@, o)]
    /\ UNCHANGED <<cfg, world, disk, store, cache_data_csv, queue, pc, writer, ghost>>

\* __init__, lines 65-66 and 70-73: the filters are kept in lower case, and a
\* platform_include that holds 'all' is emptied
ext_include == {Lower(x) : x \in config.ext_include}
ext_exclude == {Lower(x) : x \in config.ext_exclude}
platform_include ==
    IF "all" \in config.platform_include
    THEN {}
    ELSE {Lower(x) : x \in config.platform_include}

\* faulty variant: the platform filter lets every platform through
should_download_platform_any(platform) == TRUE

\* _should_download_platform, lines 397-401
should_download_platform(platform) ==
    ~(platform_include # {} /\ Lower(platform) \notin platform_include)

\* _should_download_file_type, lines 403-409
should_download_file_type(ext) ==
    IF ext_include # {} THEN Lower(ext) \in ext_include
    ELSE IF ext_exclude # {} THEN Lower(ext) \notin ext_exclude
    ELSE TRUE

\* lines 300-302 and 174-175: ext is what follows the last dot of the name
Ext(name) == name[Len(name)]

\* lines 280 and 303 (order), lines 170 and 176 (trove): the file is wanted
ShouldDownload(f) ==
    /\ should_download_platform(Platform[f])
    /\ should_download_file_type(Ext(UrlFilename[f]))

\* line 310: we have the file and do not want to update
SkipCached(rec, upd) == rec.present /\ upd = FALSE

\* faulty variant: every fetched file counts as changed
ChangedAlways(lastModified, rec) == TRUE

\* line 328: the Last-Modified header differs from the cached token
Changed(lastModified, rec) == lastModified # rec.remote

\* lines 329-335: the date the old file is renamed with; None (0) when the
\* record holds no remote_modified_date
RenameHint(rec) == IF rec.present THEN DateOf(rec.remote) ELSE 0

\* faulty variant: the new token is not stored in the record
OrderRecordStaleToken(rec, f) == [rec EXCEPT !.md5 = remote[f].md5]

\* lines 313 and 336: the record the download carries
OrderRecord(rec, f) == [rec EXCEPT !.md5 = remote[f].md5, !.remote = remote[f].tok]

\* entering _process_download for file f with record r and rename hint h
EnterDownload(o, f, r, h) ==
    /\ unit' = [unit EXCEPT ![o] = [pc |-> "rename", idx |-> @.idx, rec |-> r, hint |-> h]]
    /\ st' = [st EXCEPT ![f] = "entered"]

\* `continue`: the loop goes on with the next file
Skip(o, f, how) ==
    /\ unit' = [unit EXCEPT ![o] = NextFile(@, o)]
    /\ st' = [st EXCEPT ![f] = how]

\* faulty variant: the unit stays on the file and fetches it again
FileMissingRetry(o, f) ==
    /\ unit' = unit
    /\ st' = [st EXCEPT ![f] = "non200"]

\* lines 322-324: the response is not a 200: the file is gone, `continue`
FileMissing(o, f) == Skip(o, f, "non200")

\* lines 310 and 328 together: the order path downloads the file (once its
\* fetch has answered 200)
OrderDownloads(rec, r, upd) == ~SkipCached(rec, upd) /\ Changed(r.tok, rec)

\* _process_product, lines 276-343, for the unit's current file: cache
\* lookup, fetch of the file, change check, and the call of _process_download
process_product(o) ==
    /\ unit[o].pc = "file" /\ ~trove
    /\ LET f == CurFile(o)
           rec == cache_data_csv[f]
       IN \/ /\ ~ShouldDownload(f)
             /\ Skip(o, f, "filtered")
          \/ /\ ShouldDownload(f) /\ SkipCached(rec, update)
             /\ Skip(o, f, "skipped")
          \/ /\ ShouldDownload(f) /\ ~SkipCached(rec, update)
             /\ \/ \* the fetch raised (lines 315-319)
                   Skip(o, f, "raised")
                \/ \* the file is gone: not a 200 (lines 322-324)
                   FileMissing(o, f)
                \/ /\ ~Changed(remote[f].tok, rec)
                   /\ Skip(o, f, "unchanged")
                \/ /\ Changed(remote[f].tok, rec)
                   /\ EnterDownload(o, f, OrderRecord(rec, f), RenameHint(rec))
    /\ UNCHANGED <<cfg, world, disk, store, cache_data_csv, queue, pc, writer, applied, startFs, prev>>

\* ------------------------------------------------------ _process_download
\* file_ops.rename_old_file(local_filename, rename_date_str): the file at the
\* canonical path, if there is one, is renamed to carry the date suffix
\* (os.rename replaces an older file of that name); best effort: a failed
\* rename is logged and leaves everything as it was.  The possible results.
rename_old_file(f, h) ==
    IF fs[f].state = "absent"
    THEN {[fs |-> fs, aside |-> aside]}
    ELSE {[fs |-> [fs EXCEPT ![f] = Absent],
           aside |-> [aside EXCEPT ![f][h] = fs[f]]],
          [fs |-> fs, aside |-> aside]}

\* lines 348-349: the rename, only when a rename date was passed
process_download_rename(o) ==
    /\ unit[o].pc = "rename"
    /\ LET f == CurFile(o)
           h == unit[o].hint
       IN IF h # 0
          THEN \E r \in rename_old_file(f, h) : fs' = r.fs /\ aside' = r.aside
          ELSE UNCHANGED <<fs, aside>>
    /\ unit' = [unit EXCEPT ![o].pc = "open"]
    /\ UNCHANGED <<cfg, world, store, cache_data_csv, queue, pc, writer, ghost>>

\* faulty variant: the broken download is left where it is
CleanUpNothing(file) == file

\* lines 360-364: clean up the broken download: os.remove(local_filename)
CleanUp(file) == Absent


\* faulty variant: the failed download is reported as complete
QueueAfterFailurePut(q, r) == Append(q, r)

\* lines 353-367, the except branch: nothing is put on the queue
QueueAfterFailure(q, r) == q

\* lines 369-376, the else branch: the record is put on the queue
QueueAfterSuccess(q, r) == Append(q, r)

\* faulty variant: the worker writes its record into the persisted cache itself
StoreWrittenByWorker(cs, r) == [cs EXCEPT ![r.key] = [r EXCEPT !.present = TRUE]]

\* lines 369-376: the worker does not write the persisted cache itself
StoreAfterSuccess(cs, r) == cs

\* lines 353-367: the download step failed with an Exception: clean up, log,
\* return to the caller, which goes on with its next file
DownloadFailed(o, f, how) ==
    /\ fs' = [fs EXCEPT ![f] = CleanUp(@)]
    /\ st' = [st EXCEPT ![f] = how]
    /\ queue' = QueueAfterFailure(queue, unit[o].rec)
    /\ unit' = [unit EXCEPT ![o] = NextFile(@, o)]
    /\ UNCHANGED <<aside, store, pc>>

\* file_ops.download_file(open_r, local_filename, ...), first part: the
\* destination is opened for writing (created, or truncated if it exists) and
\* bytes start to arrive; or the step raises before the file is opened
process_download_open(o) ==
    /\ unit[o].pc = "open"
    /\ LET f == CurFile(o)
       IN \/ /\ fs' = [fs EXCEPT ![f] = Partial(unit[o].rec.remote)]
             /\ unit' = [unit EXCEPT ![o].pc = "writing"]
             /\ UNCHANGED <<aside, store, queue, pc, st>>
          \/ DownloadFailed(o, f, "failed_open")
    /\ UNCHANGED <<cfg, world, cache_data_csv, writer, applied,
                   startFs, prev>>

\* file_ops.download_file, second part, and lines 369-376: the stream ends
\* and the file is complete, the local modification time is set and the
\* record is put on the queue passed in (the trove path passes none, so the
\* put raises out of _process_download and out of start); or the stream or
\* the disk fails mid-write
process_download_write(o) ==
    /\ unit[o].pc = "writing"
    /\ LET f == CurFile(o)
           r == [unit[o].rec EXCEPT !.local = run]
       IN \/ /\ fs' = [fs EXCEPT ![f] = Complete(r.remote)]
             /\ st' = [st EXCEPT ![f] = "ok"]
             /\ store' = StoreAfterSuccess(store, r)
             /\ IF trove
                THEN /\ unit' = [unit EXCEPT ![o].pc = "raised"]
                     /\ pc' = "Aborted"
                     /\ UNCHANGED queue
                ELSE /\ queue' = QueueAfterSuccess(queue, r)
                     /\ unit' = [unit EXCEPT ![o] = NextFile(@, o)]
                     /\ UNCHANGED pc
             /\ UNCHANGED aside
          \/ DownloadFailed(o, f, "failed")
    /\ UNCHANGED <<cfg, world, cache_data_csv, writer, applied,
                   startFs, prev>>

InDownload(u) == u.pc \in {"rename", "open", "writing"}

\* -------------------------------------------------------------- trove path
\* line 192: the file is cached and no update was asked for
TroveSkipCached(rec, upd) == rec.present /\ upd # TRUE

\* line 184: a descriptor without md5 counts as 'UNKNOWN_MD5'
TroveMd5(m) == IF m = "none" THEN "UNKNOWN_MD5" ELSE m

\* lines 196-197: both the upload marker and the md5 differ from the cache
TroveChanged(r, rec) == r.tok # rec.remote /\ TroveMd5(r.md5) # rec.md5

\* lines 198-199: the record the download carries
TroveRecord(rec, f) ==
    [rec EXCEPT !.md5 = TroveMd5(remote[f].md5), !.remote = remote[f].tok]

\* lines 220-226: the rename date is taken from the record after line 198 has
\* stored the new upload marker in it
TroveRenameHint(rec) == DateOf(rec.remote)

\* lines 192 and 196-197 together: the trove path asks for the signed url
\* and downloads the file
TroveDownloads(rec, r, upd) == ~TroveSkipCached(rec, upd) /\ TroveChanged(r, rec)

\* faulty variant: after an Unauthorized answer the loop over the products
\* goes on
AfterUnauthorizedGoOn == "Trove"

\* lines 157-159: sys.exit() in the main process ends the run
AfterUnauthorized == "Fatal"

\* start, lines 105-107: the trove catalogue is paginated
\* (_get_trove_products: [] when a page fetch fails)
start_trove ==
    /\ pc = "Keys" /\ trove
    /\ pc' \in {"Trove", "Done"}
    /\ UNCHANGED <<cfg, world, disk, store, cache_data_csv, queue, writer,
                   unit, ghost>>

\* start, lines 107-109: the products are processed one after the other by
\* the main process
trove_next(o) ==
    /\ pc = "Trove"
    /\ unit[o].pc = "queued"
    /\ \A p \in Orders : KeyIndex(p) < KeyIndex(o) => unit[p].pc = "done"
    /\ unit' = [unit EXCEPT ![o] = NextFile(@, o)]
    /\ UNCHANGED <<cfg, world, disk, store, cache_data_csv, queue, pc, writer, ghost>>

\* start, line 107: the loop over the trove products ends
trove_done ==
    /\ pc = "Trove"
    /\ \A o \in Orders : unit[o].pc = "done"
    /\ pc' = "Done"
    /\ UNCHANGED <<cfg, world, disk, store, cache_data_csv, queue, writer,
                   unit, ghost>>

\* _process_trove_product, lines 164-228, for the product's current file
process_trove_product(o) ==
    /\ unit[o].pc = "file" /\ trove
    /\ LET f == CurFile(o)
           rec == cache_data_csv[f]
       IN \/ /\ ~ShouldDownload(f)
             /\ Skip(o, f, "filtered")
             /\ UNCHANGED pc
          \/ /\ ShouldDownload(f)
             /\ TroveSkipCached(rec, update) \/ ~TroveChanged(remote[f], rec)
             /\ Skip(o, f, "skipped")
             /\ UNCHANGED pc
          \/ /\ ShouldDownload(f)
             /\ ~TroveSkipCached(rec, update) /\ TroveChanged(remote[f], rec)
             /\ \/ \* the signing request or the fetch raised (lines 151-154,
                   \* 210-218)
                   /\ Skip(o, f, "raised")
                   /\ UNCHANGED pc
                \/ \* the signing request answered Unauthorized (lines 157-159)
                   /\ unit' = [unit EXCEPT ![o].pc = "exited"]
                   /\ st' = [st EXCEPT ![f] = "unauthorized"]
                   /\ pc' = AfterUnauthorized
                \/ /\ EnterDownload(o, f, TroveRecord(rec, f),
                                    TroveRenameHint(TroveRecord(rec, f)))
                   /\ UNCHANGED pc
    /\ UNCHANGED <<cfg, world, disk, store, cache_data_csv, queue, writer, applied, startFs, prev>>

\* ----------------------------------------------- coordinator, order mode
\* faulty variant: the wait ends as soon as one job is ready
JobsReadyAny == \E o \in KeySet : UnitReady(unit[o])

\* lines 125-130: every job is ready
JobsReady == \A o \in KeySet : UnitReady(unit[o])

\* lines 132-133: job.get() re-raises what a job raised
JobRaised == \E o \in KeySet : unit[o].pc = "raised"

\* the pool is terminated: its tasks die where they are
Terminated(u) == [IdleUnit EXCEPT !.pc = IF UnitReady(u) THEN u.pc ELSE "exited"]
WriterTerminated == IF writer \in {"submitted", "running"} THEN "killed" ELSE writer

\* start, lines 125-135: wait for every job, collect the results, then put
\* the sentinel; an exception re-raised by job.get leaves the with block,
\* which terminates the pool
start_wait ==
    /\ pc = "Waiting"
    /\ JobsReady
    /\ IF JobRaised
       THEN /\ pc' = "Aborted"
            /\ writer' = WriterTerminated
            /\ UNCHANGED queue
       ELSE /\ pc' = "Join"
            /\ queue' = Append(queue, KillEvent)
            /\ UNCHANGED writer
    /\ UNCHANGED <<cfg, world, disk, store, cache_data_csv, unit, ghost>>

\* line 137: queue.join() returns when every item put was marked done
QueueJoined == queue = <<>>

\* lines 139-140: pool.close(), pool.join(): every task has returned
PoolJoined == writer = "exited"

start_join ==
    /\ pc = "Join"
    /\ QueueJoined /\ PoolJoined
    /\ pc' = "Done"
    /\ UNCHANGED <<cfg, world, disk, store, cache_data_csv, queue, writer,
                   unit, ghost>>

\* file_ops.update_csv_cache(queue): the single consumer of the queue.  It
\* takes the next item; the sentinel ends it; any other record is upserted
\* into the persisted cache and flushed; the item is marked done
Upsert(cs, r) == [cs EXCEPT ![r.key] = [r EXCEPT !.present = TRUE]]

update_csv_cache ==
    /\ writer = "running" /\ queue # <<>>
    /\ LET e == Head(queue)
       IN IF e.key = "kill"
          THEN /\ writer' = "exited"
               /\ UNCHANGED <<store, applied>>
          ELSE /\ store' = Upsert(store, e)
               /\ applied' = applied \cup {e.key}
               /\ UNCHANGED writer
    /\ queue' = Tail(queue)
    /\ UNCHANGED <<cfg, world, disk, cache_data_csv, pc, unit, st, startFs, prev>>

\* ------------------------------------------------------------ environment
\* the files whose download is in flight
InFlight == {CurFile(o) : o \in {p \in Orders : InDownload(unit[p])}}

\* the user interrupts the run: SIGINT reaches every process of the group.
\* A process inside _process_download runs the handler of lines 353-367
\* (os.remove of the destination, then sys.exit); in order mode the main
\* process leaves the with block at the same time and terminates the pool, so
\* a worker may be killed before its handler has removed the file.  Every
\* other process ends where it is.
Interrupt ==
    /\ pc \notin Terminal \cup {"Idle"}
    /\ \E handled \in SUBSET InFlight :
          /\ trove => handled = InFlight
          /\ fs' = [f \in Files |-> IF f \in handled THEN CleanUp(fs[f]) ELSE fs[f]]
          /\ st' = [f \in Files |-> IF f \in handled THEN "interrupt" ELSE st[f]]
    /\ pc' = IF trove /\ InFlight # {} THEN "Exited" ELSE "Interrupted"
    /\ writer' = WriterTerminated
    /\ unit' = [o \in Orders |-> Terminated(unit[o])]
    /\ UNCHANGED <<cfg, world, aside, store, cache_data_csv, queue, applied,
                   startFs, prev>>

\* the program is killed (or the machine stops) at any point of a run: every
\* process is gone with what it held in memory; the disk stays as it is
Crash ==
    /\ pc \notin Terminal \cup {"Idle"}
    /\ pc' = "Crashed"
    /\ writer' = WriterTerminated
    /\ unit' = [o \in Orders |-> Terminated(unit[o])]
    /\ queue' = <<>>
    /\ st' = [f \in Files |-> "none"]
    /\ UNCHANGED <<cfg, world, disk, store, cache_data_csv, applied, startFs, prev>>

\* the remote catalogue publishes a new revision of a file between two runs
\* (a new revision of a file the library never had is only another first
\* catalogue)
RemoteChange(f) ==
    /\ pc = "Idle" /\ store[f].present /\ changes < MaxChanges
    /\ remote[f].tok < MaxToken
    /\ remote' = [remote EXCEPT ![f] = [tok |-> @.tok + 1, md5 |-> "h2"]]
    /\ changes' = changes + 1
    /\ prev' = [prev EXCEPT !.changed = TRUE]
    /\ UNCHANGED <<cfg, subproducts, disk, store, cache_data_csv, queue, pc,
                   writer, unit, st, applied, startFs>>

\* the status the process ends with.  start returns: 0.  sys.exit() without
\* an argument (line 159 after an Unauthorized signing answer, line 367 in the
\* interrupt handler): 0.  An exception that leaves start
\* (InvalidCookieException of line 393, what job.get re-raises, the failed
\* put of line 376, KeyboardInterrupt) or a kill: not 0
ExitStatus ==
    CASE pc = "Done" -> 0
      [] pc = "Exited" -> 0
      [] pc = "Fatal" -> IF \E f \in Files : st[f] = "unauthorized" THEN 0 ELSE 1
      [] OTHER -> 1

\* the run reached Done and every file was downloaded or found up to date
Clean == pc = "Done" /\ \A f \in Files : st[f] \in {"skipped", "unchanged", "ok"}

\* __init__, lines 55-99: the program is started again; the cache is loaded
\* from the persisted store (line 68)
NewRun ==
    /\ pc \in Terminal /\ run < MaxRuns
    /\ run' = run + 1
    /\ update' \in BOOLEAN
    /\ keys' = <<>>
    /\ cache_data_csv' = store
    /\ queue' = <<>>
    /\ pc' = "Idle"
    /\ writer' = "none"
    /\ unit' = [o \in Orders |-> IdleUnit]
    /\ st' = [f \in Files |-> "none"]
    /\ applied' = {}
    /\ startFs' = fs
    /\ prev' = [update |-> update,
                end |-> IF Clean THEN "clean" ELSE IF pc = "Crashed" THEN "crashed" ELSE "other",
                applied |-> IF pc = "Crashed" THEN applied ELSE {},
                changed |-> FALSE]
    /\ UNCHANGED <<trove, poolSize, config, world, disk, store>>

Next ==
    \/ start_keys
    \/ start_dispatch
    \/ start_trove
    \/ writer_start
    \/ \E o \in Orders : unit_start(o)
    \/ \E o \in Orders : process_order_id(o)
    \/ \E o \in Orders : process_product(o)
    \/ \E o \in Orders : trove_next(o)
    \/ \E o \in Orders : process_trove_product(o)
    \/ \E o \in Orders : process_download_rename(o)
    \/ \E o \in Orders : process_download_open(o)
    \/ \E o \in Orders : process_download_write(o)
    \/ trove_done
    \/ start_wait
    \/ start_join
    \/ update_csv_cache
    \/ Interrupt
    \/ Crash
    \/ \E f \in Files : RemoteChange(f)
    \/ NewRun

Spec == Init /\ [][Next]_vars

\* ------------------------------------------------- one run, with filters
\* the filter arguments the constructor is called with
ExtIncludeArgs == {{}, {"zip"}, {"PDF"}}
ExtExcludeArgs == {{}, {"Zip"}, {"pdf", "readme"}}
PlatformArgs == {{}, {"all"}, {"Windows", "Linux"}, {"all", "ebook"}}

\* the steps of one invocation that runs undisturbed
RunNext ==
    \/ start_keys
    \/ start_dispatch
    \/ start_trove
    \/ writer_start
    \/ \E o \in Orders : unit_start(o)
    \/ \E o \in Orders : process_order_id(o)
    \/ \E o \in Orders : process_product(o)
    \/ \E o \in Orders : trove_next(o)
    \/ \E o \in Orders : process_trove_product(o)
    \/ \E o \in Orders : process_download_rename(o)
    \/ \E o \in Orders : process_download_open(o)
    \/ \E o \in Orders : process_download_write(o)
    \/ trove_done
    \/ start_wait
    \/ start_join
    \/ update_csv_cache

\* a fresh library, any filter configuration
FilterInit ==
    /\ run = 1
    /\ trove \in BOOLEAN
    /\ update \in BOOLEAN
    /\ poolSize = 2
    /\ keys = <<>>
    /\ config \in [ext_include : ExtIncludeArgs, ext_exclude : ExtExcludeArgs,
                    platform_include : PlatformArgs]
    /\ remote = [f \in Files |-> [tok |-> 1, md5 |-> "h1"]]
    /\ changes = 0
    /\ subproducts = OrderFiles
    /\ fs = [f \in Files |-> Absent]
    /\ store = [f \in Files |-> EmptyRecord(f)]
    /\ aside = [f \in Files |-> [d \in Dates |-> Absent]]
    /\ cache_data_csv = store
    /\ queue = <<>>
    /\ pc = "Idle"
    /\ writer = "none"
    /\ unit = [o \in Orders |-> IdleUnit]
    /\ st = [f \in Files |-> "none"]
    /\ applied = {}
    /\ startFs = fs
    /\ prev = NoPrev

FilterSpec == FilterInit /\ [][RunNext]_vars

\* ---------------------------------- one run, any record and any descriptor
\* the cache records a key can have: none, or one written by an earlier run
\* at token 1 with the md5 that run stored (none, a hash, or the trove
\* path's 'UNKNOWN_MD5')
CachedRecords(f) ==
    {EmptyRecord(f)} \cup
    {[key |-> f, present |-> TRUE, remote |-> 1, md5 |-> m, local |-> 0] :
        m \in {"none", "h1", "UNKNOWN_MD5"}}

\* the first file has any cache record and any remote descriptor; the second
\* is new, the third is cached and unchanged
DetectInit ==
    /\ run = 1
    /\ trove \in BOOLEAN
    /\ update \in BOOLEAN
    /\ poolSize = 2
    /\ keys = <<>>
    /\ config = NoFilters
    /\ \E t \in Tokens, m \in Hashes :
          remote = [f \in Files |->
                      IF f = "f1" THEN [tok |-> t, md5 |-> m]
                      ELSE [tok |-> 1, md5 |-> "h1"]]
    /\ changes = 0
    /\ subproducts = OrderFiles
    /\ \E r \in CachedRecords("f1") :
          store = [f \in Files |->
                     IF f = "f1" THEN r
                     ELSE IF f = "f2" THEN EmptyRecord(f) ELSE SyncedRecord(f)]
    /\ fs = [f \in Files |-> IF store[f].present THEN Complete(1) ELSE Absent]
    /\ aside = [f \in Files |-> [d \in Dates |-> Absent]]
    /\ cache_data_csv = store
    /\ queue = <<>>
    /\ pc = "Idle"
    /\ writer = "none"
    /\ unit = [o \in Orders |-> IdleUnit]
    /\ st = [f \in Files |-> "none"]
    /\ applied = {}
    /\ startFs = fs
    /\ prev = NoPrev

DetectSpec == DetectInit /\ [][RunNext]_vars

\* ------------------------------------ one run, two units on one file path
\* the steps of one order-mode invocation that runs undisturbed
OrderNext ==
    \/ start_keys
    \/ start_dispatch
    \/ writer_start
    \/ \E o \in Orders : unit_start(o)
    \/ \E o \in Orders : process_order_id(o)
    \/ \E o \in Orders : process_product(o)
    \/ \E o \in Orders : process_download_rename(o)
    \/ \E o \in Orders : process_download_open(o)
    \/ \E o \in Orders : process_download_write(o)
    \/ start_wait
    \/ start_join
    \/ update_csv_cache

\* order mode, a pool that runs both units at once, and two purchase keys
\* whose orders list the same file under the same folder
SameBundleInit ==
    /\ run = 1
    /\ trove = FALSE
    /\ update \in BOOLEAN
    /\ poolSize = MaxPool
    /\ keys = <<>>
    /\ config = NoFilters
    /\ remote = [f \in Files |-> [tok |-> 1, md5 |-> "h1"]]
    /\ changes = 0
    /\ subproducts = SameBundleFiles
    /\ fs = [f \in Files |-> Absent]
    /\ store = [f \in Files |-> EmptyRecord(f)]
    /\ aside = [f \in Files |-> [d \in Dates |-> Absent]]
    /\ cache_data_csv = store
    /\ queue = <<>>
    /\ pc = "Idle"
    /\ writer = "none"
    /\ unit = [o \in Orders |-> IdleUnit]
    /\ st = [f \in Files |-> "none"]
    /\ applied = {}
    /\ startFs = fs
    /\ prev = NoPrev

SameBundleSpec == SameBundleInit /\ [][OrderNext]_vars

\* ================================================================ claims
EventsFor(q, f) == Cardinality({i \in 1..Len(q) : q[i].key = f})

C3_AsStated ==
    \A f \in Files :
        (st[f] = "failed" /\ cache_data_csv[f].present
           /\ startFs[f].state = "complete") => fs[f].state = "complete"

\* C4 (as stated): in order mode, for a key with a cache record, a complete file at the
\* canonical path leaves that path only by being renamed to a date-suffixed
\* name: no step overwrites or removes it
C4_AsStated ==
    [][\A f \in Files :
         (~trove /\ cache_data_csv[f].present /\ fs[f].state = "complete"
            /\ fs'[f] # fs[f])
            => \E d \in Dates : aside'[f][d] = fs[f]]_vars

\* C5: after a crash, with no remote change since and the run restarted, no
\* file whose event the crashed run applied is downloaded again (whatever the
\* update flag), a downloaded file is one whose current revision the
\* persisted cache does not hold, and every file without a cache record that
\* the run reached and fetched with a 200 is downloaded
C5_CrashResilience ==
    (~trove /\ run > 1 /\ prev.end = "crashed" /\ ~prev.changed) =>
        /\ Downloads \cap prev.applied = {}
        /\ \A f \in Downloads : cache_data_csv[f].remote # remote[f].tok
        /\ \A f \in Files :
              (~cache_data_csv[f].present /\ st[f] \notin {"none", "raised", "non200"})
                 => f \in Downloads

C5_Witness ==
    /\ ~trove /\ run > 1 /\ prev.end = "crashed" /\ ~prev.changed
    /\ pc = "Done" /\ update
    /\ \E f \in prev.applied, g \in Files \ prev.applied :
          /\ st[f] = "unchanged"
          /\ ~cache_data_csv[g].present /\ st[g] = "ok" /\ g \in applied

\* C6: the persisted cache changes only in a step of the single writer task,
\* which takes the head of the completion queue and upserts it; no step of a
\* work unit changes it
C6_SingleWriter ==
    [][store' # store =>
         /\ writer = "running" /\ queue # <<>>
         /\ queue' = Tail(queue)
         /\ store' = Upsert(store, Head(queue))
         /\ unit' = unit]_vars

C6_Witness ==
    /\ applied # {}
    /\ \E o \in Orders : unit[o].pc = "writing"
    /\ \E f \in applied : store[f].present /\ store[f].local = run

\* C7: in order mode the sentinel is on the queue only when every dispatched
\* unit is ready, and it is the last item; and when the coordinator is Done
\* the queue is empty, the writer has exited on the sentinel, and every event
\* put in the run has been applied
C7_SentinelLast ==
    ~trove =>
        /\ \A i \in 1..Len(queue) :
              queue[i].key = "kill" =>
                 /\ i = Len(queue)
                 /\ \A o \in KeySet : UnitReady(unit[o])
        /\ pc = "Done" =>
              /\ queue = <<>> /\ writer = "exited"
              /\ \A f \in Files : st[f] = "ok" => f \in applied

C7_Witness ==
    /\ ~trove /\ pc = "Done" /\ writer = "exited"
    /\ applied = Files

\* C8 (as stated): in order mode a unit that raised does not abort the run:
\* the coordinator does not end in Aborted, where no sentinel was put, the
\* writer was terminated and Done is never reached
C8_AsStated ==
    \A o \in Orders : (~trove /\ unit[o].pc = "raised") => pc # "Aborted"

\* C9 (as stated): in either mode, a download that succeeded has its event on
\* the completion queue or applied to the cache, carrying the new token, and
\* the run has not been aborted by it
C9_AsStated ==
    \A f \in Files :
        st[f] = "ok" =>
            /\ \/ f \in applied /\ store[f].remote = remote[f].tok
               \/ \E i \in 1..Len(queue) :
                     queue[i].key = f /\ queue[i].remote = remote[f].tok
            /\ pc # "Aborted"

\* the statuses of a file that was skipped, unavailable or failed to download
NoEventStatus == {"skipped", "raised", "non200", "unchanged", "failed_open", "failed"}

\* C10: an event for a key is put on the queue only in the step that completes
\* the file at its destination path (the download step ended without error);
\* a step that skips a file, finds it unavailable or fails its download puts
\* nothing on the queue, and the unit goes on with its next file
C10_EventOnlyAfterCompleteWrite ==
    [][\A f \in Files :
         /\ EventsFor(queue', f) > EventsFor(queue, f) =>
               /\ st[f] = "entered" /\ st'[f] = "ok"
               /\ fs'[f] = Complete(remote[f].tok)
               /\ EventsFor(queue', f) = EventsFor(queue, f) + 1
         /\ (st'[f] \in NoEventStatus /\ st'[f] # st[f]) =>
               /\ queue' = queue
               /\ \E o \in Orders :
                     /\ unit[o].pc \in {"file", "open", "writing"}
                     /\ CurFile(o) = f
                     /\ unit'[o] = NextFile(unit[o], o)]_vars

C10_Witness ==
    \E o \in Orders :
        /\ ~trove /\ Len(OrderFiles[o]) > 1 /\ unit[o].pc = "done"
        /\ st[OrderFiles[o][1]] = "failed"
        /\ st[OrderFiles[o][2]] = "ok"
        /\ fs[OrderFiles[o][2]].state = "complete"
        /\ EventsFor(queue, OrderFiles[o][1]) = 0
        /\ EventsFor(queue, OrderFiles[o][2]) = 1

\* ---------------------------------------------------------------- filters
\* two strings that differ at most in the case of their letters
CaseClasses == {{"zip", "ZIP", "Zip"}, {"pdf", "PDF"}, {"readme", "README"},
                {"windows", "Windows"}, {"linux", "Linux"}, {"all", "ALL"}}
EqualIgnoringCase(a, b) == a = b \/ \E c \in CaseClasses : a \in c /\ b \in c

\* the file's extension is in the configured ext_exclude
InExtExclude(f) ==
    \E x \in config.ext_exclude : EqualIgnoringCase(x, Ext(UrlFilename[f]))
\* platform_include is configured and the file's platform is not in it
NotInPlatformInclude(f) ==
    /\ config.platform_include # {}
    /\ \A x \in config.platform_include : ~EqualIgnoringCase(x, Platform[f])

\* C11 (as stated): for every configuration, a file whose extension is in
\* ext_exclude, or whose platform is not in a non-empty platform_include, is
\* never fetched and no trove signing request is made for it
C11_AsStated ==
    \A f \in Files : (InExtExclude(f) \/ NotInPlatformInclude(f)) => f \notin Fetched

\* C11 (amended): as above when ext_include is not given (when it is given it
\* alone decides and ext_exclude is not consulted) and when platform_include
\* does not hold 'all' (which turns the platform filter off)
C11_FilterCorrectness ==
    \A f \in Files :
        (\/ config.ext_include = {} /\ InExtExclude(f)
         \/ "all" \notin config.platform_include /\ NotInPlatformInclude(f))
            => f \notin Fetched

C11_Witness ==
    /\ config.ext_include = {} /\ "all" \notin config.platform_include
    /\ InExtExclude("f1") /\ st["f1"] = "filtered"
    /\ NotInPlatformInclude("f2") /\ ~InExtExclude("f2") /\ st["f2"] = "filtered"
    /\ st["f3"] = "ok"

\* ------------------------------------------------------------- exit status
\* C12 (as stated): a run that ends on an authorization failure, while the
\* purchase keys are derived or on a trove signing request, ends with a
\* status other than 0, and a run that reaches Done ends with status 0
C12_AsStated ==
    /\ pc = "Fatal" => ExitStatus # 0
    /\ pc = "Done" => ExitStatus = 0

\* -------------------------------------------------------- trove fatal path
Unauthorized == \E f \in Files : st[f] = "unauthorized"

\* C13: the step in which a trove signing request answers Unauthorized ends
\* the run (Fatal), starts no download and changes neither the disk nor the
\* persisted cache, which is as it was loaded; and from that state on nothing
\* happens but a new invocation: no product or platform entry is processed,
\* no download starts, the persisted cache and the disk stay as they are
C13_TroveFatalPath ==
    [][/\ (~Unauthorized /\ Unauthorized') =>
             /\ pc' = "Fatal"
             /\ Downloads' = Downloads
             /\ store' = store /\ store' = cache_data_csv'
             /\ fs' = fs /\ aside' = aside
       /\ Unauthorized =>
             /\ pc = "Fatal"
             /\ pc' = "Idle" /\ run' = run + 1
             /\ store' = store /\ fs' = fs /\ aside' = aside]_vars

C13_Witness ==
    /\ trove /\ pc = "Fatal"
    /\ st["f1"] = "failed" /\ st["f2"] = "unauthorized" /\ st["f3"] = "none"
    /\ unit["o2"].pc = "queued"
    /\ store = cache_data_csv

\* ------------------------------------------------------------ cancellation
\* C14 (as stated): in order mode, once the run has been interrupted no unit
\* is running any more and no completion event that was put before the
\* interrupt is left unapplied; stated for the runs interrupted during a
\* download in which every in-flight download was cleaned up (no partial file
\* is left)
C14_AsStated ==
    (/\ ~trove /\ pc = "Interrupted"
     /\ \E f \in Files : st[f] = "interrupt"
     /\ \A f \in Files : fs[f].state # "partial") =>
        /\ \A o \in Orders : ~UnitRunning(unit[o])
        /\ \A f \in Files : EventsFor(queue, f) = 0

\* --------------------------------------------------------- change detection
\* the key has a cache record whose token is not the one the remote reports
StaleRecord(f) ==
    cache_data_csv[f].present /\ cache_data_csv[f].remote # remote[f].tok

\* C15 (as stated): a file with a stale cache record that the run has reached
\* is never left out as cached or unchanged, whatever the update flag and the
\* mode; and once its download has succeeded the old file sits under the
\* cached date, the new revision is complete at the canonical path, and an
\* event with the new token is on the queue or applied
C15_AsStated ==
    \A f \in Files :
        (StaleRecord(f) /\ st[f] # "none") =>
            /\ st[f] \notin {"skipped", "unchanged"}
            /\ st[f] = "ok" =>
                  /\ aside[f][DateOf(cache_data_csv[f].remote)] = startFs[f]
                  /\ fs[f] = Complete(remote[f].tok)
                  /\ \/ f \in applied /\ store[f].remote = remote[f].tok
                     \/ \E i \in 1..Len(queue) :
                           queue[i].key = f /\ queue[i].remote = remote[f].tok

\* what the run did with a file it reached: it left it out as cached or
\* unchanged, or it went for the download
LeftOut(f) == st[f] \in {"skipped", "unchanged"}
WentFor(f) == st[f] \in {"unauthorized"} \cup Downloads

\* C16 (as stated): on every cache record and remote descriptor the two paths
\* decide alike: what a run in one mode did with a file is what the other
\* path's policy decides on the same record and descriptor
C16_AsStated ==
    \A f \in Files :
        LET rec == cache_data_csv[f]
            r == remote[f]
        IN /\ (trove /\ LeftOut(f)) => ~OrderDownloads(rec, r, update)
           /\ (trove /\ WentFor(f)) => OrderDownloads(rec, r, update)
           /\ (~trove /\ LeftOut(f)) => ~TroveDownloads(rec, r, update)
           /\ (~trove /\ WentFor(f)) => TroveDownloads(rec, r, update)

\* ------------------------------------------------------ file not available
\* C17: in order processing, the step that finds a non-200 response renames,
\* removes and writes nothing, puts no event, leaves the persisted cache
\* alone, and moves the unit on to its next file; and for the rest of the
\* run the file is not fetched again, nothing changes at its destination
\* path and no event is put for it
C17_Non200Skipped ==
    [][\A f \in Files :
         /\ (st[f] # "non200" /\ st'[f] = "non200") =>
               /\ ~trove
               /\ fs' = fs /\ aside' = aside
               /\ queue' = queue /\ store' = store
               /\ \E o \in Orders :
                     /\ unit[o].pc = "file" /\ CurFile(o) = f
                     /\ unit'[o] = NextFile(unit[o], o)
         /\ st[f] = "non200" =>
               \/ pc' \in {"Idle", "Crashed"}
               \/ /\ st'[f] = "non200"
                  /\ fs'[f] = fs[f] /\ aside'[f] = aside[f]
                  /\ EventsFor(queue', f) = 0]_vars

C17_Witness ==
    /\ ~trove /\ pc = "Done"
    /\ cache_data_csv["f1"].present /\ st["f1"] = "non200"
    /\ fs["f1"] = startFs["f1"] /\ fs["f1"].state = "complete"
    /\ \A d \in Dates : aside["f1"][d] = Absent
    /\ store["f1"] = cache_data_csv["f1"]
    /\ st["f2"] = "ok" /\ "f2" \in applied

\* -------------------------------------------------------------- termination
\* C18 (as stated): in order mode, for every pool size, while the coordinator
\* waits for its jobs with the cache-writer task running, a unit still queued
\* and no unit holding a slot, a queued unit can be given a slot (otherwise
\* no process of the run can ever take a step again and Done is not reached)
C18_AsStated ==
    (/\ ~trove /\ pc = "Waiting" /\ writer = "running"
     /\ \E o \in KeySet : unit[o].pc = "queued"
     /\ \A o \in KeySet : ~UnitRunning(unit[o]))
        => \E o \in KeySet : ENABLED unit_start(o)

\* ---------------------------------------------------------------- isolation
\* C19 (as stated): also when two units reach the same destination path, a
\* run that reaches Done has a complete file at the destination path of
\* every key whose completion event was applied (no unit's clean-up or
\* rename took away what another unit had written)
C19_AsStated ==
    pc = "Done" => \A f \in applied : fs[f].state = "complete"

====
